---- MODULE Spec2Model ----
(***************************************************************************)
(* Model of power_calculator.py: the two computations calculate_power and  *)
(* calculate_sample_size, and the page script that calls them.             *)
(*                                                                         *)
(* Number representation (all quantities are exact rationals):             *)
(*   outcome_share   in hundredths  (29 stands for 0.29)                   *)
(*   icc             in hundredths  (20 stands for 0.20)                   *)
(*   effect_size     in hundredths  (12 stands for 0.12)                   *)
(*   deff            in hundredths  (deff100 = 100 * deff)                 *)
(*   solved n        in tenths      (10911 stands for 1091.1)              *)
(*   power           in thousandths (800 stands for 0.80)                  *)
(*   nobs            as a fraction  <<numerator, denominator>>             *)
(* The only floating-point rounding that can change a result by a whole    *)
(* unit, int(n_teachers * outcome_share), is modelled bit-exactly by       *)
(* IntOfProduct.                                                           *)
(***************************************************************************)
EXTENDS Integers, Sequences, FiniteSets, TLC

VARIABLES args, called, solved, ret, pc, ns, assigned, session, runs

vars == <<args, called, solved, ret, pc, ns, assigned, session, runs>>

fnVars == <<args, called, solved, ret>>

pageVars == <<pc, ns, assigned, session, runs>>

(***************************************************************************)
(* Arithmetic helpers                                                      *)
(***************************************************************************)

\* a ceiling that truncates instead: int(a / b) for a >= 0
Ceil_truncating(a, b) == a \div b

\* np.ceil(a / b) for b > 0 (\div rounds towards minus infinity)
Ceil(a, b) == -((-a) \div b)

\* largest power of two that is <= k, for k >= 1: the binade of the double k
Pow2Floor(k) == CHOOSE e \in {2^i : i \in 0..24} : e <= k /\ k < 2 * e

\* The double nearest to p/100 lies below p/100 by the relative error
\* (a/b) * 2^-53 for these p; listed are the p with a/b > 1/2, the only ones
\* for which a product with an integer can round to below the exact value.
FloatRelErr == [p \in {29, 35, 41, 47, 57, 58, 69, 70, 82, 94} |->
                  CASE p \in {29, 58} -> <<18, 29>>
                    [] p \in {35, 70} -> <<4, 7>>
                    [] p \in {41, 82} -> <<22, 41>>
                    [] p \in {47, 94} -> <<24, 47>>
                    [] p = 57         -> <<44, 57>>
                    [] p = 69         -> <<16, 23>>]

\* round(n_teachers * outcome_share) in place of the truncation
IntOfProduct_rounding(n_teachers, outcome_share) ==
    (n_teachers * outcome_share + 50) \div 100

\* int(n_teachers * outcome_share): the double product, truncated. It is the
\* exact floor except when the exact product is a whole number K and the
\* double product rounds to the double just below K (100 * 0.29 is
\* 28.999999999999996, so int gives 28). K is never a power of two here:
\* no p of FloatRelErr divides 100 * 2^j.
IntOfProduct(n_teachers, outcome_share) ==
    LET exact == n_teachers * outcome_share
        K     == exact \div 100
        short == /\ exact % 100 = 0
                 /\ K > 0
                 /\ outcome_share \in DOMAIN FloatRelErr
                 /\ LET a == FloatRelErr[outcome_share][1]
                        b == FloatRelErr[outcome_share][2]
                        e == Pow2Floor(K)
                    IN  a * K > b * e
    IN  IF short THEN K - 1 ELSE K

(***************************************************************************)
(* The external power-analysis routine (statsmodels), seen from its call   *)
(* sites                                                                   *)
(***************************************************************************)

\* effect sizes for which the inverse solve converges: the slider's values
ValidEffectSizes == {3, 6, 9, 12, 15, 18, 21, 24}

\* n = tt_ind_solve_power(effect_size, alpha=0.05, power=0.8, ratio=1,
\* alternative='two-sided'), in tenths, rounded up to the next tenth
\* (17442.87, 4361.44, 1938.95, 1091.08, 698.64, 485.46, 356.92, 273.49)
SolvedN10 == [e \in ValidEffectSizes |->
                CASE e = 3  -> 174429
                  [] e = 6  -> 43615
                  [] e = 9  -> 19390
                  [] e = 12 -> 10911
                  [] e = 15 -> 6987
                  [] e = 18 -> 4855
                  [] e = 21 -> 3570
                  [] e = 24 -> 2735]

\* What the inverse solve hands back. Outside the valid effect sizes (here
\* effect_size = 0) the routine either raises or, after a convergence
\* warning, returns whatever its root finder stopped at.
tt_ind_solve_power(effect_size) ==
    IF effect_size \in ValidEffectSizes
    THEN {[kind |-> "n", n10 |-> SolvedN10[effect_size]]}
    ELSE {[kind |-> "raise", n10 |-> 0],
          [kind |-> "nan", n10 |-> 0],
          [kind |-> "n", n10 |-> -10]}

\* an outcome of the inverse solve that is not a usable per-arm count
Implausible(s) == s.kind # "n" \/ s.n10 <= 0

\* Steps of the power curve: <<r, p>> means power reaches p/1000 once nobs1
\* is r/1000 of the count the inverse solve returns for 0.8 (two-sided test
\* at alpha = 0.05; (1.96 + z_p)^2 / (1.96 + 0.8416)^2).
PowerSteps == << <<59, 100>>, <<159, 200>>, <<263, 300>>, <<371, 400>>,
                 <<489, 500>>, <<624, 600>>, <<786, 700>>, <<1000, 800>>,
                 <<1339, 900>>, <<1656, 950>>, <<2341, 990>> >>

\* nobs = num/den is at least r/1000 of the solved n for effect_size
ReachesStep(effect_size, num, den, r) ==
    num * 10 >= Ceil(r * SolvedN10[effect_size], 1000) * den

\* TTestIndPower().solve_power(effect_size, nobs1, ratio=1, alpha=0.05,
\* alternative='two-sided'): a table-based stand-in that is non-decreasing in
\* effect_size and in nobs1, and consistent with SolvedN10 at 0.8. Its floor
\* is alpha; an effect size of 0 returns alpha.
solve_power(effect_size, nobs1) ==
    IF effect_size \notin ValidEffectSizes THEN 50
    ELSE LET reached == {i \in DOMAIN PowerSteps :
                           ReachesStep(effect_size, nobs1[1], nobs1[2],
                                       PowerSteps[i][1])}
         IN  IF reached = {} THEN 50
             ELSE PowerSteps[CHOOSE i \in reached :
                               \A j \in reached : j <= i][2]

(***************************************************************************)
(* calculate_power and calculate_sample_size                               *)
(***************************************************************************)

\* the value of ret before any call
NoRet == [kind |-> "none", total |-> 0, power |-> 0, deff100 |-> 0,
          n_treatment |-> 0, nobs1 |-> <<0, 1>>, nobs2 |-> <<0, 1>>]

\* a design effect that multiplies icc by the cluster size, not by one less
deff_power_whole_cluster(students_per_teacher, use_clustering, icc) ==
    IF use_clustering /\ icc > 0
    THEN 100 + students_per_teacher * icc
    ELSE 100

\* deff of calculate_power (100 when the else branch is taken: no division)
deff_power(students_per_teacher, use_clustering, icc) ==
    IF use_clustering /\ icc > 0
    THEN 100 + (students_per_teacher - 1) * icc
    ELSE 100

\* a design effect that reads icc whether or not clustering is on
deff_sample_size_flag_ignored(students_per_teacher, use_clustering, icc) ==
    IF icc > 0
    THEN 100 + (students_per_teacher - 1) * icc
    ELSE 100

\* deff of calculate_sample_size
deff_sample_size(students_per_teacher, use_clustering, icc) ==
    IF use_clustering /\ icc > 0
    THEN 100 + (students_per_teacher - 1) * icc
    ELSE 100

\* calculate_power inflating the observation count by deff instead of
\* shrinking it
calculate_power_inflating(n_teachers, outcome_share, effect_size, students_per_teacher, use_clustering, icc) ==
    LET n_treatment == IntOfProduct(n_teachers, outcome_share)
        deff100     == deff_power(students_per_teacher, use_clustering, icc)
        effective_n == <<n_treatment * students_per_teacher * deff100, 100>>
    IN  [kind |-> "power", total |-> 0,
         power |-> solve_power(effect_size, effective_n),
         deff100 |-> deff100, n_treatment |-> n_treatment,
         nobs1 |-> effective_n, nobs2 |-> effective_n]

\* calculate_power: nobs1 and nobs2 are what the routine is handed for the
\* two arms (ratio=1), as fractions over deff100
calculate_power(n_teachers, outcome_share, effect_size, students_per_teacher, use_clustering, icc) ==
    LET n_treatment == IntOfProduct(n_teachers, outcome_share)
        n_control   == n_treatment
        deff100     == deff_power(students_per_teacher, use_clustering, icc)
        effective_n_treatment ==
            <<n_treatment * students_per_teacher * 100, deff100>>
        effective_n_control ==
            <<n_control * students_per_teacher * 100, deff100>>
    IN  [NoRet EXCEPT !.kind = "power",
                      !.power = solve_power(effect_size,
                                            effective_n_treatment),
                      !.deff100 = deff100,
                      !.n_treatment = n_treatment,
                      !.nobs1 = effective_n_treatment,
                      !.nobs2 = effective_n_control]

\* the exceptions int(np.ceil(x / 0.0)) can end in: ZeroDivisionError when n
\* is a Python float, OverflowError (int of inf) when n is a numpy float
DivideByZeroFaults == {"ZeroDivisionError", "OverflowError"}

\* calculate_sample_size dividing the solved n by deff instead of
\* multiplying
calculate_sample_size_deflating(effect_size, outcome_share, students_per_teacher, use_clustering, icc, s) ==
    LET deff100 == deff_sample_size(students_per_teacher, use_clustering, icc)
    IN  IF s.kind # "n" \/ students_per_teacher * outcome_share = 0
        THEN {[NoRet EXCEPT !.kind = "ValueError", !.deff100 = deff100]}
        ELSE {[NoRet EXCEPT !.kind = "total",
                            !.total = 2 * Ceil(s.n10 * 1000,
                                               deff100 * students_per_teacher
                                                   * outcome_share),
                            !.deff100 = deff100]}

\* calculate_sample_size, given the outcome s of the inverse solve: the set of
\* ways the call can end
calculate_sample_size(effect_size, outcome_share, students_per_teacher, use_clustering, icc, s) ==
    LET deff100 == deff_sample_size(students_per_teacher, use_clustering, icc)
        Raise(e) == [NoRet EXCEPT !.kind = e, !.deff100 = deff100]
    IN  IF s.kind = "raise" THEN {Raise("ValueError")}
        ELSE IF s.kind = "nan"
        THEN IF outcome_share = 0
             THEN {Raise("ZeroDivisionError"), Raise("ValueError")}
             ELSE {Raise("ValueError")}
        ELSE IF students_per_teacher * outcome_share = 0
        THEN {Raise(e) : e \in DivideByZeroFaults}
        ELSE LET total_teachers ==
                     Ceil(s.n10 * deff100,
                          10 * students_per_teacher * outcome_share)
             IN  {[NoRet EXCEPT !.kind = "total",
                                !.total = total_teachers * 2,
                                !.deff100 = deff100]}

\* the kinds of ret that are an exception escaping the call
Exceptions == {"ValueError", "ZeroDivisionError", "OverflowError"}

(***************************************************************************)
(* Direct calls of the two functions, over inputs wider than the page's    *)
(***************************************************************************)

NoArgs == [n_teachers |-> 0, outcome_share |-> 0, effect_size |-> 0,
           students_per_teacher |-> 0, use_clustering |-> FALSE, icc |-> 0]

NoSolve == [kind |-> "none", n10 |-> 0]

NoNames == [calculation_type |-> "", n_teachers |-> 0, outcome_share |-> 0,
            effect_size |-> 0, use_clustering |-> "", icc |-> 0,
            results |-> <<>>, required_teachers |-> 0]

NoSession == [icc_chosen |-> FALSE, icc |-> 0]

\* argument values tried in direct calls
UnitCounts == {0, 1, 25, 100, 166}

Shares == {0, 29, 30, 50, 100}

EffectSizes == {0} \cup ValidEffectSizes

ClusterSizes == {1, 22}

Iccs == {0, 20, 50, 100}

ArgSpace == [n_teachers : UnitCounts, outcome_share : Shares,
             effect_size : EffectSizes, students_per_teacher : ClusterSizes,
             use_clustering : BOOLEAN, icc : Iccs]

\* calculate_power applied to a record of arguments
PowerOf(a) ==
    calculate_power(a.n_teachers, a.outcome_share, a.effect_size,
                    a.students_per_teacher, a.use_clustering, a.icc)

\* calculate_sample_size applied to a record of arguments and a solve outcome
SampleSizeOf(a, s) ==
    calculate_sample_size(a.effect_size, a.outcome_share,
                          a.students_per_teacher, a.use_clustering, a.icc, s)

InitFn ==
    /\ args \in ArgSpace
    /\ called = "none"
    /\ solved = NoSolve
    /\ ret = NoRet
    /\ pc = "idle"
    /\ ns = NoNames
    /\ assigned = {}
    /\ session = NoSession
    /\ runs = 0

CallCalculatePower ==
    /\ pc = "idle"
    /\ called = "none"
    /\ called' = "calculate_power"
    /\ ret' = PowerOf(args)
    /\ UNCHANGED <<args, solved, pageVars>>

CallCalculateSampleSize ==
    /\ pc = "idle"
    /\ called = "none"
    /\ called' = "calculate_sample_size"
    /\ \E s \in tt_ind_solve_power(args.effect_size) :
          /\ solved' = s
          /\ ret' \in SampleSizeOf(args, s)
    /\ UNCHANGED <<args, pageVars>>

\* feed the total, split evenly, back into calculate_power with the same
\* effect size, outcome share and clustering settings
CallRoundTrip ==
    /\ pc = "idle"
    /\ called = "calculate_sample_size"
    /\ ret.kind = "total"
    /\ ~Implausible(solved)
    /\ called' = "round_trip"
    /\ args' = [args EXCEPT !.n_teachers = ret.total \div 2]
    /\ ret' = [PowerOf(args') EXCEPT !.total = ret.total]
    /\ UNCHANGED <<solved, pageVars>>

NextFn == CallCalculatePower \/ CallCalculateSampleSize \/ CallRoundTrip

SpecFn == InitFn /\ [][NextFn]_vars

(***************************************************************************)
(* Properties of the direct calls (checked under SpecFn)                   *)
(***************************************************************************)

\* the one way a call of calculate_sample_size on a and its solve can end,
\* when the solve converges and the division is defined
TotalOf(a) ==
    LET s == CHOOSE x \in tt_ind_solve_power(a.effect_size) : TRUE
    IN  (CHOOSE r \in SampleSizeOf(a, s) : TRUE).total

\* C1: calculate_sample_size with outcome_share = 0 reports an explicit
\* "requirement undefined" outcome: it neither returns a numeric total nor
\* ends in an unhandled arithmetic exception.
C1_ZeroShareReported ==
    (called = "calculate_sample_size" /\ args.outcome_share = 0)
        => /\ ret.kind = "DegenerateInputError"
           /\ ret.kind \notin ({"total"} \cup Exceptions)

\* C2: the total of calculate_sample_size, split evenly and fed back into
\* calculate_power with the same settings, yields power >= 0.80.
C2_RoundTripReachesTarget ==
    called = "round_trip" => ret.power >= 800

\* C3 as claimed: nobs1 = (n_units * outcome_share * units_per_cluster) /
\* DesignEffect with the product n_units * outcome_share taken as is.
C3_NoTruncation ==
    called = "calculate_power"
        => /\ ret.nobs1[1] * ret.deff100 =
                args.n_teachers * args.outcome_share
                    * args.students_per_teacher * ret.nobs1[2]
           /\ ret.nobs2 = ret.nobs1

\* C3 as amended: nobs1 = (t * units_per_cluster) / DesignEffect for the
\* whole number t = int(n_units * outcome_share): the floor of the exact
\* product, or one below it when the exact product is itself a whole number;
\* the same value is used for both arms.
C3_TruncatedUnits ==
    called = "calculate_power"
        => LET exact == args.n_teachers * args.outcome_share
               t     == ret.n_treatment
           IN  /\ t >= 0
               /\ 100 * t <= exact
               /\ exact < 100 * (t + 1) \/ exact = 100 * (t + 1)
               /\ exact % 100 # 0 => t = exact \div 100
               /\ ret.nobs1[1] * ret.deff100 =
                    t * args.students_per_teacher * 100 * ret.nobs1[2]
               /\ ret.nobs2 = ret.nobs1

C3_Witness ==
    /\ called = "calculate_power"
    /\ args.n_teachers = 25
    /\ args.outcome_share = 50
    /\ args.use_clustering
    /\ args.icc = 20
    /\ args.students_per_teacher = 22
    /\ ret.n_treatment = 12
    /\ ret.nobs1 = <<26400, 520>>

\* C4: both functions use the same design effect; it is 1 + (units_per_cluster
\* - 1) * icc when clustering is on and icc > 0 and 1 otherwise, hence >= 1,
\* > 1 when clustering is on with units_per_cluster > 1 and icc > 0, and
\* strictly increasing in icc in that case.
C4_DesignEffect ==
    called # "none"
        => LET m   == args.students_per_teacher
               on  == args.use_clustering
               other(i) == IF called = "calculate_sample_size"
                           THEN deff_power(m, on, i)
                           ELSE deff_sample_size(m, on, i)
           IN  /\ ret.deff100 = other(args.icc)
               /\ (on /\ args.icc > 0)
                     => ret.deff100 = 100 + (m - 1) * args.icc
               /\ ~(on /\ args.icc > 0) => ret.deff100 = 100
               /\ ret.deff100 >= 100
               /\ (on /\ m > 1 /\ args.icc > 0) => ret.deff100 > 100
               /\ (on /\ m > 1)
                     => \A i \in Iccs : i > args.icc => other(i) > ret.deff100

C4_Witness ==
    /\ called = "calculate_sample_size"
    /\ args.use_clustering
    /\ args.icc = 20
    /\ args.students_per_teacher = 22
    /\ ret.deff100 = 520

\* C5: for outcome_share in (0,1] and a per-arm count n the inverse solve
\* returned, the total is an even, non-negative integer equal to
\* 2 * ceiling((n * deff) / (units_per_cluster * outcome_share)), and is >= 2.
C5_EvenCeilingTotal ==
    (called = "calculate_sample_size" /\ args.outcome_share > 0
                                      /\ ~Implausible(solved))
        => LET N == solved.n10 * ret.deff100
               D == 10 * args.students_per_teacher * args.outcome_share
               t == ret.total \div 2
           IN  /\ ret.kind = "total"
               /\ ret.total % 2 = 0
               /\ ret.total >= 0
               /\ t * D >= N
               /\ (t - 1) * D < N
               /\ ret.total >= 2

C5_Witness ==
    /\ called = "calculate_sample_size"
    /\ args.effect_size = 12
    /\ args.outcome_share = 100
    /\ ~args.use_clustering
    /\ args.students_per_teacher = 22
    /\ ret.total = 100

\* C6: calculate_power is non-decreasing in effect_size, n_units and
\* outcome_share, and non-increasing in icc when clustering is on and
\* units_per_cluster > 1; so the sweep 0.03, ..., 0.24 is non-decreasing.
C6_PowerMonotone ==
    called = "calculate_power"
        => /\ \A e \in EffectSizes : e >= args.effect_size
                => PowerOf([args EXCEPT !.effect_size = e]).power >= ret.power
           /\ \A n \in UnitCounts : n >= args.n_teachers
                => PowerOf([args EXCEPT !.n_teachers = n]).power >= ret.power
           /\ \A p \in Shares : p >= args.outcome_share
                => PowerOf([args EXCEPT !.outcome_share = p]).power
                       >= ret.power
           /\ (args.use_clustering /\ args.students_per_teacher > 1)
                => \A i \in Iccs : i >= args.icc
                     => PowerOf([args EXCEPT !.icc = i]).power <= ret.power
           /\ \A e1, e2 \in ValidEffectSizes : e1 <= e2
                => PowerOf([args EXCEPT !.effect_size = e1]).power
                     <= PowerOf([args EXCEPT !.effect_size = e2]).power

C6_Witness ==
    /\ called = "calculate_power"
    /\ args.use_clustering
    /\ args.icc = 20
    /\ args.students_per_teacher = 22
    /\ args.n_teachers = 100
    /\ args.outcome_share = 50
    /\ args.effect_size = 24
    /\ ret.power = 600
    /\ PowerOf([args EXCEPT !.icc = 50]).power < ret.power
    /\ PowerOf([args EXCEPT !.effect_size = 12]).power < ret.power

\* C7: the total never decreases when effect_size decreases, when icc
\* increases with clustering on, or when outcome_share decreases within (0,1].
C7_TotalMonotone ==
    (called = "calculate_sample_size" /\ args.outcome_share > 0
                                      /\ ~Implausible(solved))
        => /\ ret.kind = "total"
           /\ \A e \in ValidEffectSizes : e <= args.effect_size
                => TotalOf([args EXCEPT !.effect_size = e]) >= ret.total
           /\ args.use_clustering
                => \A i \in Iccs : i >= args.icc
                     => TotalOf([args EXCEPT !.icc = i]) >= ret.total
           /\ \A p \in Shares \ {0} : p <= args.outcome_share
                => TotalOf([args EXCEPT !.outcome_share = p]) >= ret.total

C7_Witness ==
    /\ called = "calculate_sample_size"
    /\ args.use_clustering
    /\ args.icc = 0
    /\ args.students_per_teacher = 22
    /\ args.effect_size = 12
    /\ args.outcome_share = 100
    /\ ret.total = 100
    /\ TotalOf([args EXCEPT !.icc = 20]) = 516

\* C9: when the inverse solve fails or returns an implausible per-arm count,
\* calculate_sample_size ends in an explicit, typed failure: no numeric total
\* derived from the implausible value, no uncaught exception.
C9_SolverFailureSurfaced ==
    (called = "calculate_sample_size" /\ Implausible(solved))
        => /\ ret.kind = "UnderlyingSolverFailure"
           /\ ret.kind \notin ({"total"} \cup Exceptions)

(***************************************************************************)
(* The page script: one run is one pass from line 68 to the end; every     *)
(* interaction with a widget reruns it with an empty namespace             *)
(***************************************************************************)

\* how many times the script is rerun
MaxRuns == 2

\* students_per_teacher=22, the default both functions are called with
DefaultStudentsPerTeacher == 22

\* positions of the sliders tried (of 0..1000, 0..100, 0.0..0.5)
NTeachersChoices == {0, 25, 100}

ShareChoices == {0, 29, 50, 100}

IccChoices == {0, 20, 50}

\* np.arange(0.03, 0.25, 0.03)
Sweep == <<3, 6, 9, 12, 15, 18, 21, 24>>

Bound(names) == names \subseteq assigned

\* a name is evaluated before any assignment to it on this run
NameError ==
    /\ pc' = "NameError"
    /\ UNCHANGED <<ns, assigned, session, runs, fnVars>>

\* the argument evaluating icc on every run
IccReads_unconditional == {"icc"}

\* the names the argument `icc if use_clustering=="Yes" else 0` evaluates
IccReads == IF ns.use_clustering = "Yes" THEN {"icc"} ELSE {}

\* the value of `icc if use_clustering=="Yes" else 0`
IccArgument == IF ns.use_clustering = "Yes" THEN ns.icc ELSE 0

\* the arguments of the call on line 104 or line 117
CallArgs(effect_size) ==
    [n_teachers |-> ns.n_teachers, outcome_share |-> ns.outcome_share,
     effect_size |-> effect_size,
     students_per_teacher |-> DefaultStudentsPerTeacher,
     use_clustering |-> (ns.use_clustering = "Yes"), icc |-> IccArgument]

Init ==
    /\ pc = "line68"
    /\ ns = NoNames
    /\ assigned = {}
    /\ session = NoSession
    /\ runs = 0
    /\ args = NoArgs
    /\ called = "none"
    /\ solved = NoSolve
    /\ ret = NoRet

\* line 68
SelectCalculationType ==
    /\ pc = "line68"
    /\ \E t \in {"Calculate Power", "Calculate Required Sample Size"} :
          ns' = [ns EXCEPT !.calculation_type = t]
    /\ assigned' = assigned \cup {"calculation_type"}
    /\ pc' = "line70"
    /\ UNCHANGED <<session, runs, fnVars>>

\* lines 70-78
PowerSliders ==
    /\ pc = "line70"
    /\ IF ~Bound({"calculation_type"}) THEN NameError
       ELSE /\ ns.calculation_type = "Calculate Power"
            /\ \E n \in NTeachersChoices, p \in ShareChoices :
                  ns' = [ns EXCEPT !.n_teachers = n, !.outcome_share = p]
            /\ assigned' = assigned \cup {"n_teachers", "outcome_share"}
            /\ pc' = "line84"
            /\ UNCHANGED <<session, runs, fnVars>>

\* lines 70, 80-82
SampleSizeSliders ==
    /\ pc = "line70"
    /\ IF ~Bound({"calculation_type"}) THEN NameError
       ELSE /\ ns.calculation_type # "Calculate Power"
            /\ \E e \in ValidEffectSizes, p \in ShareChoices :
                  ns' = [ns EXCEPT !.effect_size = e, !.outcome_share = p]
            /\ assigned' = assigned \cup {"effect_size", "outcome_share"}
            /\ pc' = "line84"
            /\ UNCHANGED <<session, runs, fnVars>>

\* line 84
SelectClustering ==
    /\ pc = "line84"
    /\ \E c \in {"No", "Yes"} : ns' = [ns EXCEPT !.use_clustering = c]
    /\ assigned' = assigned \cup {"use_clustering"}
    /\ pc' = "line86"
    /\ UNCHANGED <<session, runs, fnVars>>

\* lines 86-99, use_clustering == "Yes": the slider is shown and its value
\* stays in the session
IccSlider ==
    /\ pc = "line86"
    /\ IF ~Bound({"use_clustering"}) THEN NameError
       ELSE /\ ns.use_clustering = "Yes"
            /\ \E i \in IccChoices :
                  /\ ns' = [ns EXCEPT !.icc = i]
                  /\ session' = [icc_chosen |-> TRUE, icc |-> i]
            /\ assigned' = assigned \cup {"icc"}
            /\ pc' = "line101"
            /\ UNCHANGED <<runs, fnVars>>

\* line 86, use_clustering == "No": no slider, icc is not assigned
SkipIccSlider ==
    /\ pc = "line86"
    /\ IF ~Bound({"use_clustering"}) THEN NameError
       ELSE /\ ns.use_clustering # "Yes"
            /\ pc' = "line101"
            /\ UNCHANGED <<ns, assigned, session, runs, fnVars>>

\* lines 101-102
StartSweep ==
    /\ pc = "line101"
    /\ IF ~Bound({"calculation_type"}) THEN NameError
       ELSE /\ ns.calculation_type = "Calculate Power"
            /\ ns' = [ns EXCEPT !.results = <<>>]
            /\ assigned' = assigned \cup {"results"}
            /\ pc' = "line103"
            /\ UNCHANGED <<session, runs, fnVars>>

\* lines 103-105: one iteration of the loop over the effect sizes
SweepIteration ==
    /\ pc = "line103"
    /\ Len(ns.results) < Len(Sweep)
    /\ LET effect_size == Sweep[Len(ns.results) + 1]
       IN  IF ~Bound({"n_teachers", "outcome_share", "use_clustering",
                      "results"} \cup IccReads)
           THEN NameError
           ELSE /\ args' = CallArgs(effect_size)
                /\ called' = "calculate_power"
                /\ ret' = PowerOf(args')
                /\ ns' = [ns EXCEPT !.effect_size = effect_size,
                                    !.results = Append(@, <<effect_size,
                                                            ret'.power>>)]
                /\ assigned' = assigned \cup {"effect_size", "power"}
                /\ pc' = "line103"
                /\ UNCHANGED <<solved, session, runs>>

\* lines 107-114
RenderTable ==
    /\ pc = "line103"
    /\ Len(ns.results) = Len(Sweep)
    /\ IF ~Bound({"results"}) THEN NameError
       ELSE /\ assigned' = assigned \cup {"results_df", "color_power"}
            /\ pc' = "line121"
            /\ UNCHANGED <<ns, session, runs, fnVars>>

\* lines 116-119: an exception of the call is not caught and ends the run
ComputeRequiredTeachers ==
    /\ pc = "line101"
    /\ IF ~Bound({"calculation_type"}) THEN NameError
       ELSE /\ ns.calculation_type # "Calculate Power"
            /\ IF ~Bound({"effect_size", "outcome_share", "use_clustering"}
                         \cup IccReads)
               THEN NameError
               ELSE /\ args' = CallArgs(ns.effect_size)
                    /\ called' = "calculate_sample_size"
                    /\ \E s \in tt_ind_solve_power(ns.effect_size) :
                          /\ solved' = s
                          /\ ret' \in SampleSizeOf(args', s)
                    /\ IF ret'.kind \in Exceptions
                       THEN /\ pc' = "exception"
                            /\ UNCHANGED <<ns, assigned>>
                       ELSE /\ ns' = [ns EXCEPT
                                        !.required_teachers = ret'.total]
                            /\ assigned' =
                                 assigned \cup {"required_teachers"}
                            /\ pc' = "line121"
                    /\ UNCHANGED <<session, runs>>

\* lines 121-127
Finish ==
    /\ pc = "line121"
    /\ pc' = "done"
    /\ UNCHANGED <<ns, assigned, session, runs, fnVars>>

\* a widget is touched: the script runs again from the top, with no names
\* assigned; what the widgets held stays in the session
Rerun ==
    /\ pc \in {"done", "exception", "NameError"}
    /\ runs < MaxRuns
    /\ runs' = runs + 1
    /\ pc' = "line68"
    /\ ns' = NoNames
    /\ assigned' = {}
    /\ args' = NoArgs
    /\ called' = "none"
    /\ solved' = NoSolve
    /\ ret' = NoRet
    /\ UNCHANGED session

Next ==
    \/ SelectCalculationType
    \/ PowerSliders
    \/ SampleSizeSliders
    \/ SelectClustering
    \/ IccSlider
    \/ SkipIccSlider
    \/ StartSweep
    \/ SweepIteration
    \/ RenderTable
    \/ ComputeRequiredTeachers
    \/ Finish
    \/ Rerun

Spec == Init /\ [][Next]_vars

(***************************************************************************)
(* Properties of the page script (checked under Spec)                      *)
(***************************************************************************)

\* C8: with use_clustering false the icc argument is not read: any icc gives
\* the same per-arm count, power and total, with DesignEffect = 1 exactly;
\* an ICC chosen on an earlier run has no effect once clustering is off.
C8_IccNotReadWhenOff ==
    (called # "none" /\ ~args.use_clustering)
        => /\ ret.deff100 = 100
           /\ \A i \in IccChoices \cup Iccs \cup {session.icc} :
                /\ called = "calculate_power"
                     => PowerOf([args EXCEPT !.icc = i]) = ret
                /\ called = "calculate_sample_size"
                     => ret \in SampleSizeOf([args EXCEPT !.icc = i], solved)

C8_Witness ==
    /\ called = "calculate_sample_size"
    /\ ~args.use_clustering
    /\ session.icc_chosen
    /\ session.icc = 50
    /\ ns.use_clustering = "No"
    /\ "icc" \notin assigned
    /\ ret.kind = "total"
    /\ ns.required_teachers = ret.total
    /\ pc = "done"

\* C10: on every path of the page script, each name that is evaluated has
\* been assigned earlier on that path: n_teachers is read only in the power
\* mode, effect_size comes from the slider only in the sample-size mode, and
\* icc is evaluated only when use_clustering is "Yes".
C10_NoUnassignedRead ==
    /\ pc # "NameError"
    /\ pc \in {"line121", "done"}
         => /\ ns.calculation_type = "Calculate Power"
                 <=> "n_teachers" \in assigned
            /\ ns.use_clustering = "Yes" <=> "icc" \in assigned
            /\ "effect_size" \in assigned
            /\ ns.calculation_type = "Calculate Power"
                 <=> "results" \in assigned
            /\ ns.calculation_type # "Calculate Power"
                 <=> "required_teachers" \in assigned

C10_Witness ==
    /\ pc = "done"
    /\ ns.calculation_type = "Calculate Required Sample Size"
    /\ ns.use_clustering = "No"
    /\ "icc" \notin assigned
    /\ "n_teachers" \notin assigned
    /\ "required_teachers" \in assigned

====
